---- MODULE Spec2Model ----
(***************************************************************************)
(* git-multi-push: one run of the command-line tool (cmd/git-multi-push/   *)
(* main.go) over the git operations of pkg/git/operations.go.              *)
(*                                                                         *)
(* A Go string is a sequence of tokens (<<>> is the empty string): a typed *)
(* line, a branch name, a configuration field, a subprocess's output.      *)
(* Every exec.Command and every prompt is one step; `log` keeps what was   *)
(* issued, in order, with its result, and `out` what was printed.          *)
(***************************************************************************)
EXTENDS Integers, Sequences, FiniteSets, TLC

\* ------------------------------------------------------------ bounds
\* Local branches of the repository: the first 1..MaxBranches names.
MaxBranches == 2

\* ------------------------------------------------------------ strings
Space == " "
None == <<"<none>">>

RECURSIVE TrimLeft(_)
TrimLeft(s) ==
    IF s # <<>> /\ Head(s) = Space THEN TrimLeft(Tail(s)) ELSE s

RECURSIVE TrimRight(_)
TrimRight(s) ==
    IF s # <<>> /\ s[Len(s)] = Space THEN TrimRight(SubSeq(s, 1, Len(s) - 1)) ELSE s

\* strings.TrimSpace
TrimSpace(s) == TrimRight(TrimLeft(s))

LowerOf(t) == IF t = "Y" THEN "y" ELSE IF t = "N" THEN "n" ELSE t

\* strings.ToLower
ToLower(s) == [i \in DOMAIN s |-> LowerOf(s[i])]

\* strings.Contains
Contains(s, sub) ==
    \E i \in 0..(Len(s) - Len(sub)) : SubSeq(s, i + 1, i + Len(sub)) = sub

\* readUserInput: the typed line, trimmed.
readUserInput(line) == TrimSpace(line)

\* ------------------------------------------------------------ inputs
AllBranchNames == <<"main", "dev", "feature", "hotfix", "release">>
BranchName(i) == <<AllBranchNames[i]>>
LocalBranches(k) == {BranchName(i) : i \in 1..k}

YesNoLines == {<<"y">>, <<"Y">>, <<" ", "y", " ">>, <<"n">>, <<>>, <<"y", "e", "s">>}
MessageLines == {<<>>, <<" ">>, <<"msg">>}
TargetLines ==
    {<<AllBranchNames[i]>> : i \in 1..MaxBranches}
        \cup {<<" ", AllBranchNames[1]>>, <<>>, <<"1">>, <<"nosuch">>}

ProtectedBranch == <<"protected branch">>
FetchFirst == <<"fetch first">>
\* Combined outputs of a git push: with neither pattern, with one, with both.
PushOutputs ==
    { <<>>, <<"rejected">>,
      <<"remote:", "protected branch">>, <<"rejected", "fetch first">>,
      <<"protected branch", "fetch first">>, <<"fetch first", "protected branch">> }

\* ------------------------------------------------------------ configuration
RemoteNames == {"github", "gitlab"}

Config(gu, gr, lu, lr) ==
    [GithubUsername |-> gu, GithubRepo |-> gr, GitlabUsername |-> lu, GitlabRepo |-> lr]

FullConfig == Config(<<"alice">>, <<"proj">>, <<"alice">>, <<"proj">>)
ConfigRecords ==
    { FullConfig,
      Config(<<"alice">>, <<"proj">>, <<>>, <<>>) }

\* The bytes of config.json: a JSON object (its key/value pairs) or anything else.
JsonObject(pairs) == [json |-> "object", pairs |-> pairs]

\* A byte that is no valid UTF-8, and the rune encoding/json writes in its place.
InvalidByte == "0xFF"
ReplacementRune == "U+FFFD"
ValidUTF8(s) == \A i \in DOMAIN s : s[i] # InvalidByte

\* A JSON string as json.Marshal writes it: coerced to valid UTF-8.
JsonString(s) == [i \in DOMAIN s |-> IF s[i] = InvalidByte THEN ReplacementRune ELSE s[i]]

\* A struct tag that does not name the key LoadConfig reads.
Marshal_tagTypo(c) ==
  JsonObject(
    << <<"github_username", JsonString(c.GithubUsername)>>,
       <<"github_repository", JsonString(c.GithubRepo)>>,
       <<"gitlab_username", JsonString(c.GitlabUsername)>>,
       <<"gitlab_repo", JsonString(c.GitlabRepo)>> >>)

\* json.MarshalIndent of a Config: the four keys, in field order.
Marshal(c) ==
  JsonObject(
    << <<"github_username", JsonString(c.GithubUsername)>>,
       <<"github_repo", JsonString(c.GithubRepo)>>,
       <<"gitlab_username", JsonString(c.GitlabUsername)>>,
       <<"gitlab_repo", JsonString(c.GitlabRepo)>> >>)

MalformedData == [json |-> "garbage", pairs |-> <<>>]
Absent == [exists |-> FALSE, data |-> MalformedData]
FileOf(data) == [exists |-> TRUE, data |-> data]
\* A parser that takes any bytes for a record.
WellFormed_anything(data) == TRUE

WellFormed(data) == data.json = "object"

Lookup(data, key) ==
    LET ps == data.pairs
    IN  IF \E i \in DOMAIN ps : ps[i][1] = key
        THEN ps[CHOOSE i \in DOMAIN ps :
                    ps[i][1] = key /\ \A j \in DOMAIN ps : ps[j][1] = key => j <= i][2]
        ELSE <<>>

\* A struct tag that does not name the key SaveConfig writes.
Unmarshal_tagTypo(data) ==
    Config(Lookup(data, "github_username"), Lookup(data, "github_repo"),
           Lookup(data, "gitlab_username"), Lookup(data, "gitlab_repository"))

\* json.Unmarshal into a zero Config: a key that is missing leaves its field empty.
Unmarshal(data) ==
    Config(Lookup(data, "github_username"), Lookup(data, "github_repo"),
           Lookup(data, "gitlab_username"), Lookup(data, "gitlab_repo"))

ConfigFiles == {Absent, FileOf(MalformedData)} \cup {FileOf(Marshal(c)) : c \in ConfigRecords}

NoUrl == <<>>
StaleUrl == <<"https://old.example/", "repo", ".git">>

\* The remotes of the repository before the run: none, github only, both.
InitialRemotes ==
    { [r \in RemoteNames |-> NoUrl],
      [r \in RemoteNames |-> IF r = "github" THEN StaleUrl ELSE NoUrl],
      [r \in RemoteNames |-> StaleUrl] }

\* ------------------------------------------------------------ messages
\* An error or a printed line: its kind, the remote it names and the text it embeds.
Msg(kind, remoteName, text) == [kind |-> kind, remote |-> remoteName, text |-> text]
Nil == Msg("nil", "", <<>>)
Err(kind) == Msg(kind, "", <<>>)
Info(text) == Msg("info", "", <<text>>)
Warning(err) == Msg("warning", err.remote, <<err.kind>>)
Completed == Msg("Operations completed successfully", "", <<>>)
MustCommit == Err("changes must be committed before pushing. Operation cancelled")
EmptyCommitMessage == Err("commit message cannot be empty")
BranchNotFound(target) == Msg("branch not found", "", target)
MergeIntoItself == Err("cannot merge a branch into itself")

\* A subprocess or a prompt that was issued, with its arguments and its result.
Cmd(cmd, args, ok) == [cmd |-> cmd, args |-> args, ok |-> ok]
YesNo(accepted) == IF accepted THEN "yes" ELSE "no"

\* ------------------------------------------------------------ state
VARIABLES
    \* the command line and the environment
    forcePush, setupMode, gitInstalled, inRepo,
    \* the repository and the configuration file
    dirty, branches, curBranch, remoteUrl, pushed, cfgFile,
    \* main: position, current step, each step's result, exit status
    pc, step, results, exitCode,
    \* what was issued and what was printed
    log, out,
    \* GitOperation.config
    config,
    \* SyncWithRemotes' locals
    syncBranch, syncIdx,
    \* handleCommit's locals
    commit, message,
    \* handleMerge's locals
    listed, currentBranch, availableBranches, merge, targetBranch, mergeMessage,
    \* Push's locals
    todo, remote, outputStr,
    \* the --setup flow's locals: the record being typed, the next field
    setupConfig, setupIdx

flagVars == <<forcePush, setupMode, gitInstalled, inRepo>>
repoVars == <<dirty, branches, curBranch, remoteUrl, pushed, cfgFile>>
mainVars == <<pc, step, results, exitCode>>
syncVars == <<syncBranch, syncIdx>>
commitVars == <<commit, message>>
mergeVars == <<listed, currentBranch, availableBranches, merge, targetBranch, mergeMessage>>
pushVars == <<todo, remote, outputStr>>
setupVars == <<setupConfig, setupIdx>>
vars == <<flagVars, repoVars, mainVars, log, out, config,
          syncVars, commitVars, mergeVars, pushVars, setupVars>>

NoConfig == [loaded |-> FALSE, value |-> Config(<<>>, <<>>, <<>>, <<>>)]
Loaded(c) == [loaded |-> TRUE, value |-> c]

StepNames == {"sync", "commit", "merge", "push"}
\* A loop over one remote name only.
SyncRemotes_githubOnly == <<"github">>

\* A loop that tries github again when it is through.
SyncRemotes_retry == <<"github", "gitlab", "github">>

\* The remote names SyncWithRemotes pulls from, in this order.
SyncRemotes == <<"github", "gitlab">>

Init ==
    /\ forcePush \in BOOLEAN
    /\ setupMode \in BOOLEAN
    /\ gitInstalled \in BOOLEAN
    /\ inRepo \in BOOLEAN
    /\ dirty \in BOOLEAN
    /\ \E k \in 1..MaxBranches : branches = LocalBranches(k)
    /\ curBranch \in branches
    /\ remoteUrl \in InitialRemotes
    /\ pushed = [r \in RemoteNames |-> None]
    /\ cfgFile \in ConfigFiles
    \* what a --setup run never reads is not varied
    /\ setupMode =>
          /\ ~forcePush /\ ~dirty /\ branches = LocalBranches(1)
          /\ \A r \in RemoteNames : remoteUrl[r] = NoUrl
    /\ pc = "start"
    /\ step = "start"
    /\ results = [s \in StepNames |-> "pending"]
    /\ exitCode = -1
    /\ log = <<>>
    /\ out = <<>>
    /\ config = NoConfig
    /\ syncBranch = None
    /\ syncIdx = 0
    /\ commit = None
    /\ message = None
    /\ listed = {}
    /\ currentBranch = None
    /\ availableBranches = {}
    /\ merge = None
    /\ targetBranch = None
    /\ mergeMessage = None
    /\ todo = {}
    /\ remote = ""
    /\ outputStr = None
    /\ setupConfig = Config(<<>>, <<>>, <<>>, <<>>)
    /\ setupIdx = 0

\* ------------------------------------------------------------ main
\* main with the commit and merge steps exchanged.
NextStep_mergeFirst(s) ==
    CASE s = "sync" -> "merge"
      [] s = "merge" -> "commit"
      [] s = "commit" -> "push"
      [] s = "push" -> "done"

\* The order of main's steps.
NextStep(s) ==
    CASE s = "sync" -> "commit"
      [] s = "commit" -> "merge"
      [] s = "merge" -> "push"
      [] s = "push" -> "done"

EntryPc(s) ==
    CASE s = "sync" -> "sync_fetch"
      [] s = "commit" -> "commit_check"
      [] s = "merge" -> "merge_list"
      [] s = "push" -> "push_isrepo"
      [] s = "done" -> "exited"

\* main ending the run on a sync error too.
MainAborts_onSyncToo(s, err) == err # Nil

\* main only warning about a merge error.
MainAborts_notOnMerge(s, err) == s \notin {"sync", "merge"} /\ err # Nil

\* Whether main ends the run (logger.Fatal) on the error a step returned.
MainAborts(s, err) == s # "sync" /\ err # Nil

\* logger.Fatal: print and exit with status 1.
Fatal(err, printed) ==
    /\ pc' = "exited"
    /\ exitCode' = 1
    /\ out' = Append(printed, err)

\* Step s returns err to main, having printed `printed`.
Return(s, err, printed) ==
    /\ results' = [results EXCEPT ![s] = IF err = Nil THEN "ok" ELSE "err"]
    /\ IF MainAborts(s, err)
       THEN Fatal(err, printed) /\ step' = step
       ELSE LET shown == IF err # Nil THEN Append(printed, Warning(err)) ELSE printed
                n == NextStep(s)
            IN  /\ step' = n
                /\ pc' = EntryPc(n)
                /\ IF n = "done"
                   THEN out' = Append(shown, Completed) /\ exitCode' = 0
                   ELSE out' = shown /\ exitCode' = exitCode

\* A step's locals are gone when it returns to main (and stay as they are when
\* the run ends inside the step).
ClearSync == syncBranch' = None /\ syncIdx' = 0
ClearCommit == commit' = None /\ message' = None
ClearMerge ==
    /\ listed' = {}
    /\ currentBranch' = None
    /\ availableBranches' = {}
    /\ merge' = None
    /\ targetBranch' = None
    /\ mergeMessage' = None
ClearPush == todo' = {} /\ remote' = "" /\ outputStr' = None

\* exec.LookPath("git"), then the --setup branch.
CheckGitInstalled ==
    /\ pc = "start"
    /\ IF ~gitInstalled
       THEN Fatal(Err("git is not installed"), out)
       ELSE /\ pc' = IF setupMode THEN "setup" ELSE "isrepo"
            /\ UNCHANGED <<exitCode, out>>
    /\ UNCHANGED <<flagVars, setupVars, repoVars, step, results, log, config,
                   syncVars, commitVars, mergeVars, pushVars>>

\* ------------------------------------------------------------ SaveConfig
\* How SaveConfig's system calls end: os.MkdirAll fails, os.WriteFile fails
\* opening the file or after truncating it, or both succeed.
SaveOutcomes == {"ok", "mkdir failed", "open failed", "short write"}

\* config.json after SaveConfig(c).
SavedFile(c, outcome, file) ==
    CASE outcome = "ok" -> FileOf(Marshal(c))
      [] outcome = "short write" -> FileOf(MalformedData)
      [] OTHER -> file

\* The error SaveConfig returns.
SaveError(outcome) ==
    CASE outcome = "ok" -> Nil
      [] outcome = "mkdir failed" -> Err("failed to create config directory")
      [] OTHER -> Err("failed to write config")

\* g.config after SaveConfig(c).
SavedConfig(c, outcome, old) == IF outcome = "ok" THEN Loaded(c) ELSE old

\* ------------------------------------------------------------ --setup
SetupFields == <<"GithubUsername", "GithubRepo", "GitlabUsername", "GitlabRepo">>
SetupLines == {<<"alice">>, <<" ", "bob", " ">>, <<>>, <<InvalidByte>>}

\* The answer that confirms "Is this correct? [Y/n]: ".
SetupConfirmed(answer) == ToLower(answer) # <<"n">>

\* --setup: the first prompt.
SetupMode ==
    /\ pc = "setup"
    /\ pc' = "setup_prompt"
    /\ setupIdx' = 1
    /\ UNCHANGED <<flagVars, repoVars, step, results, exitCode, log, out, config,
                   syncVars, commitVars, mergeVars, pushVars, setupConfig>>

\* One of the four prompts: username and repository name, for github and gitlab.
SetupPrompt ==
    /\ pc = "setup_prompt"
    /\ \E line \in SetupLines :
        /\ setupConfig' = [setupConfig EXCEPT ![SetupFields[setupIdx]] = readUserInput(line)]
        /\ log' = Append(log, Cmd("prompt", <<SetupFields[setupIdx]>>, TRUE))
    /\ IF setupIdx < Len(SetupFields)
       THEN setupIdx' = setupIdx + 1 /\ pc' = pc
       ELSE setupIdx' = setupIdx /\ pc' = "setup_confirm"
    /\ UNCHANGED <<flagVars, repoVars, step, results, exitCode, out, config,
                   syncVars, commitVars, mergeVars, pushVars>>

\* "Is this correct? [Y/n]: "
SetupConfirm ==
    /\ pc = "setup_confirm"
    /\ \E line \in YesNoLines :
        LET answer == readUserInput(line)
        IN  /\ log' = Append(log, Cmd("prompt", <<"correct?", YesNo(SetupConfirmed(answer))>>, TRUE))
            /\ IF SetupConfirmed(answer)
               THEN pc' = "setup_save" /\ UNCHANGED <<exitCode, out>>
               ELSE /\ pc' = "exited"
                    /\ exitCode' = 0
                    /\ out' = Append(out, Info("Configuration cancelled"))
    /\ UNCHANGED <<flagVars, repoVars, step, results, config,
                   syncVars, commitVars, mergeVars, pushVars, setupVars>>

\* SaveConfig of the typed record, and main returns.
SetupSave ==
    /\ pc = "setup_save"
    /\ \E outcome \in SaveOutcomes :
        /\ cfgFile' = SavedFile(setupConfig, outcome, cfgFile)
        /\ config' = SavedConfig(setupConfig, outcome, config)
        /\ IF SaveError(outcome) # Nil
           THEN Fatal(SaveError(outcome), out)
           ELSE /\ pc' = "exited"
                /\ exitCode' = 0
                /\ out' = Append(out, Info("Configuration saved successfully"))
    /\ UNCHANGED <<flagVars, dirty, branches, curBranch, remoteUrl, pushed, step, results,
                   log, syncVars, commitVars, mergeVars, pushVars, setupVars>>

\* git rev-parse --show-toplevel succeeds only inside a repository.
RevParseOutcomes == IF inRepo THEN BOOLEAN ELSE {FALSE}

\* main going on whatever IsGitRepo returns.
RepoMissing_ignored(isRepo) == FALSE

\* Whether main ends the run on what IsGitRepo returns.
RepoMissing(isRepo) == ~isRepo

IsGitRepo ==
    /\ pc = "isrepo"
    /\ \E ok \in RevParseOutcomes :
        /\ log' = Append(log, Cmd("rev-parse", <<>>, ok))
        /\ IF RepoMissing(ok)
           THEN Fatal(Err("Not in a git repository"), out) /\ step' = step
           ELSE /\ step' = "sync"
                /\ pc' = EntryPc("sync")
                /\ UNCHANGED <<exitCode, out>>
    /\ UNCHANGED <<flagVars, setupVars, repoVars, results, config,
                   syncVars, commitVars, mergeVars, pushVars>>

\* ------------------------------------------------------------ SyncWithRemotes
FetchAllRemotes ==
    /\ pc = "sync_fetch"
    /\ \E ok \in BOOLEAN :
        /\ log' = Append(log, Cmd("fetch", <<"--all">>, ok))
        /\ IF ~ok
           THEN Return("sync", Err("failed to fetch remotes"), out)
           ELSE pc' = "sync_branch" /\ UNCHANGED <<step, results, exitCode, out>>
    /\ UNCHANGED <<flagVars, setupVars, repoVars, config, syncVars, commitVars, mergeVars, pushVars>>

SyncGetCurrentBranch ==
    /\ pc = "sync_branch"
    /\ \E ok \in BOOLEAN :
        /\ log' = Append(log, Cmd("branch", <<"--show-current">>, ok))
        /\ IF ~ok
           THEN /\ Return("sync", Err("failed to get current branch"), out)
                /\ UNCHANGED syncVars
           ELSE /\ syncBranch' = curBranch
                /\ syncIdx' = 1
                /\ pc' = "sync_pull"
                /\ UNCHANGED <<step, results, exitCode, out>>
    /\ UNCHANGED <<flagVars, setupVars, repoVars, config, commitVars, mergeVars, pushVars>>

\* One turn of the loop over remotes: git pull <remote> <branch> --allow-unrelated-histories.
SyncPull ==
    /\ pc = "sync_pull"
    /\ \E ok \in BOOLEAN :
        LET name == SyncRemotes[syncIdx]
            printed == IF ok THEN out
                       ELSE Append(out, Msg("warning", name, <<"Could not pull">>))
        IN  /\ log' = Append(log, Cmd("pull", <<name>> \o syncBranch, ok))
            /\ IF syncIdx < Len(SyncRemotes)
               THEN /\ syncIdx' = syncIdx + 1
                    /\ out' = printed
                    /\ UNCHANGED <<pc, step, results, exitCode, syncBranch>>
               ELSE /\ Return("sync", Nil, printed)
                    /\ ClearSync
    /\ UNCHANGED <<flagVars, setupVars, repoVars, config, commitVars, mergeVars, pushVars>>

\* ------------------------------------------------------------ handleCommit
\* Whether handleCommit goes on to the prompt.
\* A commit step that prompts on a clean tree too.
NeedsCommit_always(hasChanges) == TRUE

NeedsCommit(hasChanges) == hasChanges

\* A prompt that only an explicit "n" declines.
CommitAccepted_unlessNo(answer) == ToLower(answer) # <<"n">>

\* The answer that accepts the commit prompt.
CommitAccepted(answer) == ToLower(answer) = <<"y">>

HasUncommittedChanges ==
    /\ pc = "commit_check"
    /\ \E ok \in BOOLEAN :
        /\ log' = Append(log, Cmd("status", <<"--porcelain">>, ok))
        /\ IF ~ok
           THEN Return("commit", Err("failed to check git status"), out)
           ELSE IF ~NeedsCommit(dirty)
           THEN Return("commit", Nil, Append(out, Info("No changes to commit")))
           ELSE pc' = "commit_status" /\ UNCHANGED <<step, results, exitCode, out>>
    /\ UNCHANGED <<flagVars, setupVars, repoVars, config, syncVars, commitVars, mergeVars, pushVars>>

ShowStatus ==
    /\ pc = "commit_status"
    /\ \E ok \in BOOLEAN :
        /\ log' = Append(log, Cmd("status", <<>>, ok))
        /\ IF ~ok
           THEN Return("commit", Err("failed to show git status"), out)
           ELSE pc' = "commit_prompt" /\ UNCHANGED <<step, results, exitCode, out>>
    /\ UNCHANGED <<flagVars, setupVars, repoVars, config, syncVars, commitVars, mergeVars, pushVars>>

\* "Would you like to commit these changes? [y/N]: "
CommitPrompt ==
    /\ pc = "commit_prompt"
    /\ \E line \in YesNoLines :
        LET answer == readUserInput(line)
        IN  /\ log' = Append(log, Cmd("prompt", <<"commit?", YesNo(CommitAccepted(answer))>>, TRUE))
            /\ IF ~CommitAccepted(answer)
               THEN /\ Return("commit", MustCommit, out)
                    /\ IF MainAborts("commit", MustCommit)
                       THEN commit' = answer /\ UNCHANGED message
                       ELSE ClearCommit
               ELSE /\ commit' = answer
                    /\ pc' = "commit_message"
                    /\ UNCHANGED <<step, results, exitCode, out, message>>
    /\ UNCHANGED <<flagVars, setupVars, repoVars, config, syncVars, mergeVars, pushVars>>

\* "Enter commit message: "
CommitMessagePrompt ==
    /\ pc = "commit_message"
    /\ \E line \in MessageLines :
        LET typed == readUserInput(line)
        IN  /\ log' = Append(log, Cmd("prompt", <<"commit message">>, TRUE))
            /\ IF typed = <<>>
               THEN /\ Return("commit", EmptyCommitMessage, out)
                    /\ IF MainAborts("commit", EmptyCommitMessage)
                       THEN message' = typed /\ UNCHANGED commit
                       ELSE ClearCommit
               ELSE /\ message' = typed
                    /\ pc' = "commit_run"
                    /\ UNCHANGED <<step, results, exitCode, out, commit>>
    /\ UNCHANGED <<flagVars, setupVars, repoVars, config, syncVars, mergeVars, pushVars>>

\* gitOp.Commit(message)
Commit ==
    /\ pc = "commit_run"
    /\ \E ok \in BOOLEAN :
        /\ log' = Append(log, Cmd("commit", <<"-m">> \o message, ok))
        /\ IF ~ok
           THEN /\ Return("commit", Err("failed to commit"), out)
                /\ IF MainAborts("commit", Err("failed to commit"))
                   THEN UNCHANGED commitVars
                   ELSE ClearCommit
                /\ UNCHANGED dirty
           ELSE /\ dirty' = FALSE
                /\ Return("commit", Nil, Append(out, Info("Changes committed successfully")))
                /\ ClearCommit
    /\ UNCHANGED <<flagVars, setupVars, branches, curBranch, remoteUrl, pushed, cfgFile, config,
                   syncVars, mergeVars, pushVars>>

\* ------------------------------------------------------------ handleMerge
\* The candidate list without the filter on the current branch.
AvailableBranches_unfiltered(all, current) == all

\* The candidate targets: the local branches other than the current one.
AvailableBranches(all, current) == {b \in all : b # current}

\* The answer that accepts the merge prompt.
MergeAccepted(answer) == ToLower(answer) = <<"y">>

DefaultMergeMessage(from, to) == <<"Merge branch '">> \o from \o <<"' into ">> \o to

ValidateMerge(fromBranch, toBranch) ==
    IF fromBranch = toBranch THEN MergeIntoItself ELSE Nil

MergeArgs(fromBranch, msg) ==
    <<"merge">> \o fromBranch \o (IF msg # <<>> THEN <<"-m">> \o msg ELSE <<>>)

ListBranches ==
    /\ pc = "merge_list"
    /\ \E ok \in BOOLEAN :
        /\ log' = Append(log, Cmd("branch", <<>>, ok))
        /\ IF ~ok
           THEN /\ Return("merge", Err("failed to list branches"), out)
                /\ UNCHANGED listed
           ELSE /\ listed' = branches
                /\ pc' = "merge_current"
                /\ UNCHANGED <<step, results, exitCode, out>>
    /\ UNCHANGED <<flagVars, setupVars, repoVars, config, syncVars, commitVars, pushVars,
                   currentBranch, availableBranches, merge, targetBranch, mergeMessage>>

MergeGetCurrentBranch ==
    /\ pc = "merge_current"
    /\ \E ok \in BOOLEAN :
        /\ log' = Append(log, Cmd("branch", <<"--show-current">>, ok))
        /\ IF ~ok
           THEN /\ Return("merge", Err("failed to get current branch"), out)
                /\ IF MainAborts("merge", Err("failed to get current branch"))
                   THEN UNCHANGED mergeVars
                   ELSE ClearMerge
           ELSE IF AvailableBranches(listed, curBranch) = {}
           THEN /\ Return("merge", Nil, Append(out, Info("No other branches available for merging.")))
                /\ ClearMerge
           ELSE /\ currentBranch' = curBranch
                /\ availableBranches' = AvailableBranches(listed, curBranch)
                /\ pc' = "merge_prompt"
                /\ UNCHANGED <<step, results, exitCode, out, listed, merge,
                               targetBranch, mergeMessage>>
    /\ UNCHANGED <<flagVars, setupVars, repoVars, config, syncVars, commitVars, pushVars>>

\* "Would you like to merge your changes? [y/N]: "
MergePrompt ==
    /\ pc = "merge_prompt"
    /\ \E line \in YesNoLines :
        LET answer == readUserInput(line)
        IN  /\ log' = Append(log, Cmd("prompt", <<"merge?", YesNo(MergeAccepted(answer))>>, TRUE))
            /\ IF ~MergeAccepted(answer)
               THEN /\ Return("merge", Nil, out)
                    /\ ClearMerge
               ELSE /\ merge' = answer
                    /\ pc' = "merge_target"
                    /\ UNCHANGED <<step, results, exitCode, out, listed, currentBranch,
                                   availableBranches, targetBranch, mergeMessage>>
    /\ UNCHANGED <<flagVars, setupVars, repoVars, config, syncVars, commitVars, pushVars>>

\* "Enter the branch name to merge into: "
MergeTarget ==
    /\ pc = "merge_target"
    /\ \E line \in TargetLines :
        LET typed == readUserInput(line)
            err == BranchNotFound(typed)
        IN  /\ log' = Append(log, Cmd("prompt", <<"merge target">>, TRUE))
            /\ IF typed \notin availableBranches
               THEN /\ Return("merge", err, out)
                    /\ IF MainAborts("merge", err)
                       THEN /\ targetBranch' = typed
                            /\ UNCHANGED <<listed, currentBranch, availableBranches,
                                           merge, mergeMessage>>
                       ELSE ClearMerge
               ELSE /\ targetBranch' = typed
                    /\ pc' = "merge_message"
                    /\ UNCHANGED <<step, results, exitCode, out, listed, currentBranch,
                                   availableBranches, merge, mergeMessage>>
    /\ UNCHANGED <<flagVars, setupVars, repoVars, config, syncVars, commitVars, pushVars>>

\* "Enter merge commit message: "
MergeMessagePrompt ==
    /\ pc = "merge_message"
    /\ \E line \in MessageLines :
        LET typed == readUserInput(line)
        IN  /\ log' = Append(log, Cmd("prompt", <<"merge message">>, TRUE))
            /\ mergeMessage' = IF typed = <<>>
                               THEN DefaultMergeMessage(currentBranch, targetBranch)
                               ELSE typed
    /\ pc' = "merge_checkout"
    /\ UNCHANGED <<flagVars, setupVars, repoVars, config, syncVars, commitVars, pushVars,
                   step, results, exitCode, out, listed, currentBranch,
                   availableBranches, merge, targetBranch>>

\* A merge that goes back to the branch it came from.
CheckedOut_backOnSource(current, toBranch) == current

\* The current branch after a successful git checkout <toBranch>.
CheckedOut(current, toBranch) == toBranch

\* MergeBranch, first half: ValidateMerge, then git checkout <toBranch>.
Checkout ==
    /\ pc = "merge_checkout"
    /\ LET invalid == ValidateMerge(currentBranch, targetBranch)
       IN  IF invalid # Nil
           THEN /\ Return("merge", invalid, out)
                /\ IF MainAborts("merge", invalid) THEN UNCHANGED mergeVars ELSE ClearMerge
                /\ UNCHANGED <<log, curBranch>>
           ELSE \E ok \in BOOLEAN :
                /\ log' = Append(log, Cmd("checkout", targetBranch, ok))
                /\ IF ~ok
                   THEN LET err == Msg("failed to checkout", "", targetBranch)
                        IN  /\ Return("merge", err, out)
                            /\ IF MainAborts("merge", err)
                               THEN UNCHANGED mergeVars
                               ELSE ClearMerge
                            /\ UNCHANGED curBranch
                   ELSE /\ curBranch' = CheckedOut(curBranch, targetBranch)
                        /\ pc' = "merge_run"
                        /\ UNCHANGED <<step, results, exitCode, out, mergeVars>>
    /\ UNCHANGED <<flagVars, setupVars, dirty, branches, remoteUrl, pushed, cfgFile, config,
                   syncVars, commitVars, pushVars>>

\* MergeBranch, second half: git merge <fromBranch> [-m message].
Merge ==
    /\ pc = "merge_run"
    /\ \E ok \in BOOLEAN :
        /\ log' = Append(log, Cmd("merge", Tail(MergeArgs(currentBranch, mergeMessage)), ok))
        /\ IF ~ok
           THEN LET err == Msg("failed to merge", "", currentBranch \o targetBranch)
                IN  /\ Return("merge", err, out)
                    /\ IF MainAborts("merge", err) THEN UNCHANGED mergeVars ELSE ClearMerge
           ELSE /\ Return("merge", Nil,
                          Append(out, Msg("Successfully merged", "", currentBranch \o targetBranch)))
                /\ ClearMerge
    /\ UNCHANGED <<flagVars, setupVars, repoVars, config, syncVars, commitVars, pushVars>>

\* ------------------------------------------------------------ Push
\* fmt.Sprintf("git@<host>:%s/%s.git", username, repo)
Url(host, username, repo) == <<"git@", host, ":">> \o username \o <<"/">> \o repo \o <<".git">>

\* A remotes map that lost its gitlab entry.
Remotes_githubOnly(c) ==
    [name \in {"github"} |-> Url("github.com", c.GithubUsername, c.GithubRepo)]

\* The remotes map Push builds from the loaded configuration.
Remotes(c) ==
    [name \in RemoteNames |->
        IF name = "github"
        THEN Url("github.com", c.GithubUsername, c.GithubRepo)
        ELSE Url("gitlab.com", c.GitlabUsername, c.GitlabRepo)]

\* A loop that goes on to the next call whatever the error.
PushLoopReturns_never(err) == FALSE

\* Whether Push's loop returns on the error of addRemote or pushToRemote.
PushLoopReturns(err) == err # Nil

\* The force flag passed on to github only.
PushArgs_forceGithubOnly(remoteName, force) ==
    <<"push", remoteName>> \o (IF force /\ remoteName = "github" THEN <<"--force">> ELSE <<>>)

\* The git arguments of pushToRemote.
PushArgs(remoteName, force) ==
    <<"push", remoteName>> \o (IF force THEN <<"--force">> ELSE <<>>)

\* The two patterns tested in the other order.
PushError_fetchFirstFirst(remoteName, output) ==
    IF Contains(output, FetchFirst)
    THEN Msg("fetch first remediation", remoteName, output)
    ELSE IF Contains(output, ProtectedBranch)
    THEN Msg("protected branch remediation", remoteName, output)
    ELSE Msg("failed to push", remoteName, output)

\* The error pushToRemote returns for a failed push with this combined output.
PushError(remoteName, output) ==
    IF Contains(output, ProtectedBranch)
    THEN Msg("protected branch remediation", remoteName, output)
    ELSE IF Contains(output, FetchFirst)
    THEN Msg("fetch first remediation", remoteName, output)
    ELSE Msg("failed to push", remoteName, output)

PushIsGitRepo ==
    /\ pc = "push_isrepo"
    /\ \E ok \in RevParseOutcomes :
        /\ log' = Append(log, Cmd("rev-parse", <<>>, ok))
        /\ IF ~ok
           THEN Return("push", Err("not in a git repository"), out)
           ELSE pc' = "push_load" /\ UNCHANGED <<step, results, exitCode, out>>
    /\ UNCHANGED <<flagVars, setupVars, repoVars, config, syncVars, commitVars, mergeVars, pushVars>>

\* A LoadConfig that drops the error of json.Unmarshal.
LoadError_notFoundOnly(file) ==
    IF ~file.exists THEN Err("config not found, run setup first") ELSE Nil

\* The error LoadConfig returns for this config.json.
LoadError(file) ==
    IF ~file.exists THEN Err("config not found, run setup first")
    ELSE IF ~WellFormed(file.data) THEN Err("invalid config format")
    ELSE Nil

\* g.config after LoadConfig: untouched when the file cannot be read, a zero
\* Config when it cannot be parsed.
LoadedConfig(file, old) ==
    IF ~file.exists THEN old
    ELSE IF ~WellFormed(file.data) THEN Loaded(Config(<<>>, <<>>, <<>>, <<>>))
    ELSE Loaded(Unmarshal(file.data))

\* LoadConfig, then the remotes map.
LoadConfig ==
    /\ pc = "push_load"
    /\ config' = LoadedConfig(cfgFile, config)
    /\ log' = Append(log, Cmd("LoadConfig", <<>>, LoadError(cfgFile) = Nil))
    /\ IF LoadError(cfgFile) # Nil
       THEN /\ Return("push", LoadError(cfgFile), out)
            /\ UNCHANGED todo
       ELSE /\ todo' = DOMAIN Remotes(LoadedConfig(cfgFile, config).value)
            /\ pc' = "push_next"
            /\ UNCHANGED <<step, results, exitCode, out>>
    /\ UNCHANGED <<flagVars, setupVars, repoVars, syncVars, commitVars, mergeVars, remote, outputStr>>

\* An addRemote that adds the remote whether or not it is registered.
AddRemoteCmd_alwaysAdd(registered) == "remote add"

\* What addRemote runs after git remote get-url: set-url when that succeeded.
AddRemoteCmd(registered) == IF registered THEN "remote set-url" ELSE "remote add"

\* addRemote returned err to Push's loop.
AfterAddRemote(err) ==
    IF PushLoopReturns(err)
    THEN Return("push", err, out) /\ UNCHANGED pushVars
    ELSE pc' = "push_run" /\ UNCHANGED <<step, results, exitCode, out, pushVars>>

\* The loop takes the next name of the map (in no fixed order); addRemote starts
\* with git remote get-url <name>.
RemoteGetUrl ==
    /\ pc = "push_next"
    /\ \E name \in todo :
        LET registered == remoteUrl[name] # NoUrl
        IN  /\ remote' = name
            /\ log' = Append(log, Cmd("remote get-url", <<name>>, registered))
            /\ pc' = IF AddRemoteCmd(registered) = "remote set-url"
                     THEN "push_seturl" ELSE "push_add"
    /\ UNCHANGED <<flagVars, setupVars, repoVars, config, syncVars, commitVars, mergeVars,
                   step, results, exitCode, out, todo, outputStr>>

RemoteSetUrl ==
    /\ pc = "push_seturl"
    /\ \E ok \in BOOLEAN :
        LET url == Remotes(config.value)[remote]
        IN  /\ log' = Append(log, Cmd("remote set-url", <<remote>> \o url, ok))
            /\ remoteUrl' = IF ok THEN [remoteUrl EXCEPT ![remote] = url] ELSE remoteUrl
            /\ AfterAddRemote(IF ok THEN Nil ELSE Msg("failed to update remote", remote, <<>>))
    /\ UNCHANGED <<flagVars, setupVars, dirty, branches, curBranch, pushed, cfgFile, config,
                   syncVars, commitVars, mergeVars>>

RemoteAdd ==
    /\ pc = "push_add"
    /\ \E ok \in BOOLEAN :
        LET url == Remotes(config.value)[remote]
        IN  /\ log' = Append(log, Cmd("remote add", <<remote>> \o url, ok))
            /\ remoteUrl' = IF ok THEN [remoteUrl EXCEPT ![remote] = url] ELSE remoteUrl
            /\ AfterAddRemote(IF ok THEN Nil ELSE Msg("failed to add remote", remote, <<>>))
    /\ UNCHANGED <<flagVars, setupVars, dirty, branches, curBranch, pushed, cfgFile, config,
                   syncVars, commitVars, mergeVars>>

\* pushToRemote: git push <remote> [--force], and the loop's next turn.
PushToRemote ==
    /\ pc = "push_run"
    /\ \E ok \in BOOLEAN, output \in PushOutputs :
        LET err == IF ok THEN Nil ELSE PushError(remote, output)
            printed == IF ok THEN Append(out, Msg("Successfully pushed", remote, <<>>)) ELSE out
            rest == todo \ {remote}
        IN  /\ log' = Append(log, Cmd("push", Tail(PushArgs(remote, forcePush)), ok))
            /\ pushed' = IF ok THEN [pushed EXCEPT ![remote] = curBranch] ELSE pushed
            /\ IF PushLoopReturns(err)
               THEN /\ Return("push", err, printed)
                    /\ outputStr' = output
                    /\ UNCHANGED <<todo, remote>>
               ELSE IF rest = {}
               THEN /\ Return("push", Nil, printed)
                    /\ ClearPush
               ELSE /\ pc' = "push_next"
                    /\ out' = printed
                    /\ todo' = rest
                    /\ UNCHANGED <<step, results, exitCode, remote, outputStr>>
    /\ UNCHANGED <<flagVars, setupVars, dirty, branches, curBranch, remoteUrl, cfgFile, config,
                   syncVars, commitVars, mergeVars>>

\* ------------------------------------------------------------ specification
Next ==
    \/ CheckGitInstalled
    \/ SetupMode
    \/ SetupPrompt
    \/ SetupConfirm
    \/ SetupSave
    \/ IsGitRepo
    \/ FetchAllRemotes
    \/ SyncGetCurrentBranch
    \/ SyncPull
    \/ HasUncommittedChanges
    \/ ShowStatus
    \/ CommitPrompt
    \/ CommitMessagePrompt
    \/ Commit
    \/ ListBranches
    \/ MergeGetCurrentBranch
    \/ MergePrompt
    \/ MergeTarget
    \/ MergeMessagePrompt
    \/ Checkout
    \/ Merge
    \/ PushIsGitRepo
    \/ LoadConfig
    \/ RemoteGetUrl
    \/ RemoteSetUrl
    \/ RemoteAdd
    \/ PushToRemote

Spec == Init /\ [][Next]_vars

\* A run in which every subprocess call and every prompt returns: main is one
\* sequential goroutine, so the step it is at is taken.
SpecReturns == Init /\ [][Next]_vars /\ WF_vars(Next)

\* ------------------------------------------------------------ SaveConfig and LoadConfig alone
\* Calls of SaveConfig and LoadConfig in one specification.
MaxCalls == 3

FieldValues == {<<>>, <<"alice">>, <<"al", InvalidByte>>}
AnyRecords == {Config(a, b, c, d) : a \in FieldValues, b \in FieldValues,
                                    c \in FieldValues, d \in FieldValues}

\* A caller holding a record, and a config.json that is absent, unreadable or
\* was saved before.
InitConfig ==
    /\ forcePush = FALSE /\ setupMode = FALSE /\ gitInstalled = TRUE /\ inRepo = TRUE
    /\ dirty = FALSE
    /\ branches = LocalBranches(1)
    /\ curBranch = BranchName(1)
    /\ remoteUrl = [r \in RemoteNames |-> NoUrl]
    /\ pushed = [r \in RemoteNames |-> None]
    /\ cfgFile \in ConfigFiles
    /\ pc = "config"
    /\ step = "start"
    /\ results = [s \in StepNames |-> "pending"]
    /\ exitCode = -1
    /\ log = <<>>
    /\ out = <<>>
    /\ config = NoConfig
    /\ syncBranch = None /\ syncIdx = 0
    /\ commit = None /\ message = None
    /\ listed = {} /\ currentBranch = None /\ availableBranches = {}
    /\ merge = None /\ targetBranch = None /\ mergeMessage = None
    /\ todo = {} /\ remote = "" /\ outputStr = None
    /\ setupConfig \in AnyRecords
    /\ setupIdx = 0

\* g.SaveConfig(&record)
CallSaveConfig ==
    /\ pc = "config"
    /\ Len(log) < MaxCalls
    /\ \E outcome \in SaveOutcomes :
        /\ cfgFile' = SavedFile(setupConfig, outcome, cfgFile)
        /\ config' = SavedConfig(setupConfig, outcome, config)
        /\ log' = Append(log, Cmd("SaveConfig", <<outcome>>, SaveError(outcome) = Nil))
    /\ UNCHANGED <<flagVars, dirty, branches, curBranch, remoteUrl, pushed, mainVars, out,
                   syncVars, commitVars, mergeVars, pushVars, setupVars>>

\* g.LoadConfig()
CallLoadConfig ==
    /\ pc = "config"
    /\ Len(log) < MaxCalls
    /\ config' = LoadedConfig(cfgFile, config)
    /\ log' = Append(log, Cmd("LoadConfig", <<>>, LoadError(cfgFile) = Nil))
    /\ UNCHANGED <<flagVars, repoVars, mainVars, out,
                   syncVars, commitVars, mergeVars, pushVars, setupVars>>

NextConfig ==
    \/ CallSaveConfig
    \/ CallLoadConfig

SpecConfig == InitConfig /\ [][NextConfig]_vars

\* ------------------------------------------------------------ properties
Range(f) == {f[i] : i \in DOMAIN f}
Last(q) == q[Len(q)]
Exited == pc = "exited"

IsSyncCmd(e) == e.cmd \in {"fetch", "pull"}
IsCommitPrompt(e) == e.cmd = "prompt" /\ e.args[1] \in {"commit?", "commit message"}
IsCommitCmd(e) == e.cmd = "commit"
IsMergeCmd(e) == e.cmd \in {"checkout", "merge"}
IsPushStepCmd(e) == e.cmd \in {"remote add", "remote set-url", "push"}
Declined(e, question) == e.cmd = "prompt" /\ e.args = <<question, "no">>
PushErrorKinds ==
    {"protected branch remediation", "fetch first remediation", "failed to push"}
PushesTo(name) == {i \in DOMAIN log : log[i].cmd = "push" /\ log[i].args[1] = name}
Pushes == {i \in DOMAIN log : log[i].cmd = "push"}

\* The step a logged entry belongs to, 0 for the queries several steps issue.
StepOf(e) ==
    IF IsSyncCmd(e) THEN 1
    ELSE IF IsCommitPrompt(e) \/ IsCommitCmd(e) \/ e.cmd = "status" THEN 2
    ELSE IF IsMergeCmd(e) \/ (e.cmd = "prompt" /\ ~IsCommitPrompt(e)) THEN 3
    ELSE IF IsPushStepCmd(e) \/ e.cmd = "remote get-url" THEN 4
    ELSE 0

\* Whether q, from position i on, never goes back to a step before `high`.
RECURSIVE InStepOrder(_, _, _)
InStepOrder(q, i, high) ==
    \/ i > Len(q)
    \/ LET s == StepOf(q[i])
       IN  /\ s = 0 \/ s >= high
           /\ InStepOrder(q, i + 1, IF s = 0 THEN high ELSE s)

\* C1: the steps are entered in the order sync, commit, merge, push: nothing of
\* the commit step is issued before sync has returned, no checkout or merge
\* before the commit step has returned without error, no remote add, set-url or
\* push before the merge step has returned without error, and what was issued
\* is in step order.
C1_StepsInOrder ==
    /\ \A i \in DOMAIN log :
        /\ (IsCommitPrompt(log[i]) \/ IsCommitCmd(log[i])) => results["sync"] # "pending"
        /\ IsMergeCmd(log[i]) => results["sync"] # "pending" /\ results["commit"] = "ok"
        /\ IsPushStepCmd(log[i]) =>
              /\ results["sync"] # "pending"
              /\ results["commit"] = "ok"
              /\ results["merge"] = "ok"
    /\ InStepOrder(log, 1, 0)

\* A completed run that committed, merged and pushed.
C1_Witness ==
    /\ Exited /\ exitCode = 0
    /\ \E i, j, k \in DOMAIN log :
        /\ i < j /\ j < k
        /\ log[i].cmd = "commit" /\ log[j].cmd = "merge" /\ log[k].cmd = "push"

\* C2: with uncommitted changes, an answer to the commit prompt other than y/Y
\* ends the run with the "changes must be committed before pushing" error, and
\* no commit, checkout, merge, remote add, set-url or push is issued.
C2_DeclinedCommitAborts ==
    (commit # None /\ commit \notin {<<"y">>, <<"Y">>}) =>
        /\ dirty
        /\ Exited /\ exitCode = 1
        /\ Last(out) = MustCommit
        /\ results["commit"] = "err"
        /\ \A i \in DOMAIN log :
            ~IsCommitCmd(log[i]) /\ ~IsMergeCmd(log[i]) /\ ~IsPushStepCmd(log[i])

\* The user left the commit prompt empty (the default, N) and the run ended.
C2_Witness ==
    /\ dirty /\ commit = <<>> /\ Exited
    /\ \E i \in DOMAIN log : Declined(log[i], "commit?")

\* C3: a typed merge target that is the current branch or is not among the
\* other local branches fails the merge step with "branch '<name>' not found",
\* and no checkout or merge is issued.
C3_BadTargetRejected ==
    (targetBranch # None
        /\ (targetBranch = currentBranch \/ targetBranch \notin (branches \ {currentBranch}))) =>
        /\ Exited /\ exitCode = 1
        /\ results["merge"] = "err"
        /\ Last(out) = BranchNotFound(targetBranch)
        /\ \A i \in DOMAIN log : ~IsMergeCmd(log[i])

\* The user typed the current branch's name, with other branches to choose from.
C3_Witness ==
    /\ Exited
    /\ targetBranch # None /\ targetBranch = currentBranch
    /\ availableBranches # {}

\* C4: the error of a failed push is decided by its output: with "protected
\* branch" the protected-branch remediation, naming the remote; otherwise with
\* "fetch first" the pull-or-force remediation; with neither, the raw output;
\* the output is embedded unchanged. A push that succeeded leaves no such message.
C4_PushFailureClassified ==
    /\ outputStr # None =>
        /\ Exited /\ exitCode = 1
        /\ log # <<>> /\ Last(log).cmd = "push" /\ ~Last(log).ok
        /\ Last(out).remote = Last(log).args[1]
        /\ Last(out).text = outputStr
        /\ Last(out).kind =
              (IF \E i \in DOMAIN outputStr : outputStr[i] = "protected branch"
               THEN "protected branch remediation"
               ELSE IF \E i \in DOMAIN outputStr : outputStr[i] = "fetch first"
               THEN "fetch first remediation"
               ELSE "failed to push")
    /\ \A i \in DOMAIN out :
        out[i].kind \in PushErrorKinds =>
            /\ i = Len(out)
            /\ outputStr # None
            /\ pushed[out[i].remote] = None

\* A push to gitlab failed with both patterns in its output.
C4_Witness ==
    /\ Exited
    /\ outputStr = <<"fetch first", "protected branch">>
    /\ Last(out).kind = "protected branch remediation"
    /\ Last(out).remote = "gitlab"

\* Whether the loaded configuration leaves a field of this remote empty.
EmptyFields(name) ==
    /\ config.loaded
    /\ IF name = "github"
       THEN config.value.GithubUsername = <<>> \/ config.value.GithubRepo = <<>>
       ELSE config.value.GitlabUsername = <<>> \/ config.value.GitlabRepo = <<>>

\* C5: a remote with an empty username or repository in the loaded
\* configuration is skipped: no remote add, set-url or push is issued for it.
C5_EmptyRemoteSkipped ==
    \A name \in RemoteNames :
        EmptyFields(name) =>
            \A i \in DOMAIN log : IsPushStepCmd(log[i]) => log[i].args[1] # name

\* C6: the first failure of a remote add, set-url or push is the last thing the
\* run issues: the run ends with that error, status 1, and what was pushed
\* before stays pushed.
C6_FirstPushFailureEndsRun ==
    \A i \in DOMAIN log :
        (IsPushStepCmd(log[i]) /\ ~log[i].ok) =>
            /\ i = Len(log)
            /\ Exited /\ exitCode = 1
            /\ results["push"] = "err"
            /\ Last(out).remote = log[i].args[1]
            /\ Last(out).kind \in PushErrorKinds \cup {"failed to add remote", "failed to update remote"}
            /\ \A r \in RemoteNames :
                pushed[r] # None <=> \E j \in PushesTo(r) : log[j].ok

\* A run that ended failed with exactly one remote pushed.
C6_Witness ==
    /\ Exited /\ exitCode = 1
    /\ results["push"] = "err"
    /\ Cardinality({r \in RemoteNames : pushed[r] # None}) = 1

\* No subprocess of the commit, merge and push steps failed (the result of
\* remote get-url only tells whether the remote is registered).
NothingFailedAfterSync ==
    \A i \in DOMAIN log :
        log[i].ok \/ IsSyncCmd(log[i]) \/ log[i].cmd = "remote get-url"
            \/ (log[i].cmd = "branch" /\ results["sync"] = "err")

\* C7: a finished run on a clean tree with another local branch, the merge
\* declined, both remotes configured, no --force and nothing failing after sync
\* issued exactly two pushes, one per remote, neither forced, no commit,
\* checkout or merge, and printed the completion message.
C7_CleanDeclinedRunPushesTwice ==
    (/\ Exited /\ ~setupMode
     /\ ~forcePush
     /\ cfgFile = FileOf(Marshal(FullConfig))
     /\ Cardinality(branches) >= 2
     /\ ~dirty /\ \A i \in DOMAIN log : ~IsCommitPrompt(log[i])
     /\ \E i \in DOMAIN log : Declined(log[i], "merge?")
     /\ NothingFailedAfterSync) =>
        /\ Cardinality(Pushes) = 2
        /\ \A r \in RemoteNames : Cardinality(PushesTo(r)) = 1
        /\ \A i \in Pushes : log[i].ok /\ "--force" \notin Range(log[i].args)
        /\ \A i \in DOMAIN log : ~IsCommitCmd(log[i]) /\ ~IsMergeCmd(log[i])
        /\ Last(out) = Completed
        /\ exitCode = 0

\* Such a run, finished.
C7_Witness ==
    /\ Exited /\ ~setupMode /\ ~forcePush
    /\ cfgFile = FileOf(Marshal(FullConfig))
    /\ Cardinality(branches) >= 2
    /\ ~dirty /\ \A i \in DOMAIN log : ~IsCommitPrompt(log[i])
    /\ \E i \in DOMAIN log : Declined(log[i], "merge?")
    /\ NothingFailedAfterSync
    /\ Cardinality(Pushes) = 2

\* C8: no failure inside sync ends the run: the run never ends inside the sync
\* step, and once sync has returned, with or without error, main is at the
\* commit step or beyond it.
C8_SyncFailureNeverEndsRun ==
    /\ Exited => step # "sync"
    /\ results["sync"] # "pending" => step \in {"commit", "merge", "push", "done"}
    /\ (\E i \in DOMAIN log : IsSyncCmd(log[i]) /\ ~log[i].ok) =>
          (Exited => step \in {"commit", "merge", "push", "done"})

\* A run whose fetch-all failed and that completed.
C8_Witness ==
    /\ results["sync"] = "err"
    /\ Exited /\ exitCode = 0 /\ Last(out) = Completed
    /\ \E i \in DOMAIN log : log[i].cmd = "fetch" /\ ~log[i].ok

\* C9: a non-setup run prints the completion message and exits with status 0
\* only if the commit step, the merge step and the push to every remote
\* returned without error; an error of commit, merge or push ends the run with
\* status 1 and without the completion message.
C9_CompletionOnlyAfterSuccess ==
    ~setupMode =>
        /\ (Completed \in Range(out) \/ exitCode = 0) =>
              /\ Exited /\ exitCode = 0 /\ Last(out) = Completed
              /\ \A s \in {"commit", "merge", "push"} : results[s] = "ok"
              /\ \A r \in RemoteNames : \E i \in PushesTo(r) : log[i].ok
        /\ (\E s \in {"commit", "merge", "push"} : results[s] = "err") =>
              /\ Exited /\ exitCode = 1
              /\ Completed \notin Range(out)

\* A run that ended on a failed merge.
C9_Witness ==
    /\ ~setupMode /\ Exited /\ exitCode = 1
    /\ results["merge"] = "err"
    /\ log # <<>> /\ Last(log).cmd = "merge" /\ ~Last(log).ok

\* C10: a push carries --force if and only if the run was started with
\* --force, for both remotes alike.
C10_ForceFlagFollowsOption ==
    \A i \in Pushes : ("--force" \in Range(log[i].args)) <=> forcePush

\* A forced run that pushed to both remotes.
C10_Witness ==
    /\ forcePush
    /\ \A r \in RemoteNames : \E i \in PushesTo(r) : "--force" \in Range(log[i].args)

FieldsOf(c) == {c.GithubUsername, c.GithubRepo, c.GitlabUsername, c.GitlabRepo}

\* The last two calls were a SaveConfig that succeeded and a LoadConfig.
SavedThenLoaded ==
    /\ Len(log) >= 2
    /\ log[Len(log) - 1].cmd = "SaveConfig" /\ log[Len(log) - 1].ok
    /\ Last(log).cmd = "LoadConfig"

\* C11, as claimed: for every record, any four strings, SaveConfig followed by
\* LoadConfig loads a record identical to the saved one.
C11_RoundTripAnyRecord ==
    SavedThenLoaded => Last(log).ok /\ config = Loaded(setupConfig)

\* C11, amended: for every record whose four fields are valid UTF-8 (empty ones
\* included), SaveConfig followed by LoadConfig loads a record identical to the
\* saved one, whatever config.json held before.
C11_RoundTripValidUTF8 ==
    (SavedThenLoaded /\ \A f \in FieldsOf(setupConfig) : ValidUTF8(f)) =>
        Last(log).ok /\ config = Loaded(setupConfig)

\* A record with empty gitlab fields saved over the file of another record
\* (the first LoadConfig read it) and loaded back.
C11_Witness ==
    /\ Len(log) = 3
    /\ log[1].cmd = "LoadConfig" /\ log[1].ok
    /\ SavedThenLoaded
    /\ setupConfig = Config(<<"alice">>, <<"alice">>, <<>>, <<>>)
    /\ config = Loaded(setupConfig)

\* config.json is absent or does not parse.
Unloadable == ~cfgFile.exists \/ cfgFile.data.json # "object"

\* C12: with config.json absent or malformed, LoadConfig returns an error, the
\* push step fails with it, and no remote get-url, add, set-url or push is
\* issued.
C12_UnloadableConfigFailsPush ==
    (Unloadable /\ ~setupMode) =>
        /\ \A i \in DOMAIN log :
            ~IsPushStepCmd(log[i]) /\ log[i].cmd # "remote get-url"
        /\ results["push"] # "ok"
        /\ config.loaded => config.value = Config(<<>>, <<>>, <<>>, <<>>)
        /\ (step = "push" /\ pc \notin {"push_isrepo", "push_load"}) =>
              /\ Exited /\ exitCode = 1
              /\ results["push"] = "err"
              /\ ~Last(log).ok
              /\ Last(log).cmd = "rev-parse" \/ Last(log).cmd = "LoadConfig"
              /\ Last(log).cmd = "LoadConfig" =>
                    Last(out).kind = (IF cfgFile.exists THEN "invalid config format"
                                      ELSE "config not found, run setup first")

\* A run that ended in the push step on a config.json that does not parse.
C12_Witness ==
    /\ Exited /\ step = "push"
    /\ cfgFile.exists /\ cfgFile.data.json # "object"
    /\ Last(out).kind = "invalid config format"

EnvCmds ==
    {"fetch", "pull", "commit", "checkout", "merge", "remote add", "remote set-url",
     "push", "prompt"}

\* Nothing was issued or asked, and the run has failed or is about to.
EndsAtOnce ==
    /\ \A i \in DOMAIN log : log[i].cmd \notin EnvCmds
    /\ pc \in {"start", "isrepo", "exited"}
    /\ Exited => exitCode = 1

\* C13, as claimed: without git installed, or outside a repository, the run
\* fails at once: no fetch, pull, commit, checkout, merge, remote add, set-url
\* or push is issued and no prompt is shown.
C13_EnvFailureEndsAnyRun == (~gitInstalled \/ ~inRepo) => EndsAtOnce

\* C13, amended: without git installed, or outside a repository in a run
\* without --setup, the run fails at once: nothing is issued and no prompt is
\* shown. (A --setup run never asks whether it is inside a repository.)
C13_EnvFailureEndsRun == (~gitInstalled \/ (~inRepo /\ ~setupMode)) => EndsAtOnce

\* A run without --setup that ended outside a repository.
C13_Witness ==
    /\ gitInstalled /\ ~inRepo /\ ~setupMode
    /\ Exited /\ exitCode = 1
    /\ Last(out) = Err("Not in a git repository")

\* A --setup run that ended after the user confirmed the typed values.
SetupConfirmedRun ==
    /\ setupMode /\ Exited
    /\ Len(log) = Len(SetupFields) + 1
    /\ Last(log).cmd = "prompt" /\ Last(log).args = <<"correct?", YesNo(TRUE)>>

\* LoadConfig in a following run succeeds and returns the typed values.
NextRunLoadsTyped ==
    /\ LoadError(cfgFile) = Nil
    /\ LoadedConfig(cfgFile, [loaded |-> FALSE, value |-> Config(<<>>, <<>>, <<>>, <<>>)])
           = Loaded(setupConfig)

Commits == {i \in DOMAIN log : IsCommitCmd(log[i])}
AcceptedCommitPrompt == Cmd("prompt", <<"commit?", YesNo(TRUE)>>, TRUE)
MessagePrompt == Cmd("prompt", <<"commit message">>, TRUE)

\* C15: the commit is issued exactly when the tree has uncommitted changes, the
\* commit prompt was answered y/Y and the typed message is not empty; with a
\* clean tree the commit step shows no prompt and returns success; with an
\* empty message the run aborts and nothing more is issued.
C15_CommitIffDirtyAcceptedMessage ==
    /\ Cardinality(Commits) <= 1
    /\ \A i \in Commits :
        /\ i >= 3
        /\ log[i - 2] = AcceptedCommitPrompt
        /\ log[i - 1] = MessagePrompt
        /\ Len(log[i].args) >= 2
        /\ dirty = ~log[i].ok
    /\ \A i \in DOMAIN log :
        log[i] = MessagePrompt =>
            /\ i >= 2 /\ log[i - 1] = AcceptedCommitPrompt
            /\ \/ i < Len(log) /\ IsCommitCmd(log[i + 1])
               \/ i = Len(log) /\ pc = "commit_run" /\ message # <<>> /\ message # None
               \/ /\ i = Len(log) /\ message = <<>>
                  /\ Exited /\ exitCode = 1
                  /\ Last(out) = EmptyCommitMessage
    /\ (~dirty /\ Commits = {}) =>
        /\ \A i \in DOMAIN log : ~IsCommitPrompt(log[i])
        /\ results["commit"] = "err" => Last(log) = Cmd("status", <<"--porcelain">>, FALSE)
        /\ (\E i \in DOMAIN log : log[i] = Cmd("status", <<"--porcelain">>, TRUE)) =>
              results["commit"] = "ok"

\* A dirty tree, an accepted prompt and a message: the commit was made and the
\* run went on.
C15_Witness ==
    /\ Commits # {}
    /\ \A i \in Commits : log[i].ok /\ log[i].args = <<"-m", "msg">>
    /\ ~dirty
    /\ results["commit"] = "ok"
    /\ step = "done"

MergePrompts ==
    {i \in DOMAIN log : log[i].cmd = "prompt" /\ log[i].args[1] = "merge?"}
Pulls == {i \in DOMAIN log : log[i].cmd = "pull"}

\* The merge step returned success without a checkout or a merge, and the run
\* went on to the push step on the branch the sync step pulled.
MergeWasNoOp ==
    /\ results["merge"] = "ok"
    /\ step \in {"push", "done"}
    /\ \A i \in DOMAIN log :
        ~IsMergeCmd(log[i])
        /\ (log[i].cmd = "prompt" => log[i].args[1] \notin {"merge target", "merge message"})
    /\ \A i \in Pulls : Tail(log[i].args) = curBranch

\* C16: when no other local branch exists, or the merge prompt is answered with
\* anything other than y/Y, the merge step returns success, issues no checkout
\* or merge, leaves the current branch unchanged and the run proceeds to the
\* push step. (With a single branch no merge prompt is shown at all; the step
\* fails only when one of its two branch queries fails.)
C16_NoMergeIsNoOp ==
    /\ branches = {curBranch} =>
        /\ MergePrompts = {}
        /\ \A i \in DOMAIN log : ~IsMergeCmd(log[i])
        /\ results["merge"] = "ok" => MergeWasNoOp
        /\ results["merge"] = "err" =>
              /\ Exited /\ exitCode = 1
              /\ Last(log).cmd = "branch" /\ ~Last(log).ok
    /\ (\E i \in MergePrompts : Declined(log[i], "merge?")) =>
        /\ Cardinality(MergePrompts) = 1
        /\ MergeWasNoOp

\* Two branches, the merge prompt declined with a word that is not y, and the
\* run went through the push step.
C16_Witness ==
    /\ Cardinality(branches) = 2
    /\ \E i \in MergePrompts : Declined(log[i], "merge?")
    /\ Pulls # {}
    /\ Pushes # {}
    /\ step = "done"

Checkouts == {i \in DOMAIN log : log[i].cmd = "checkout"}
Merges == {i \in DOMAIN log : log[i].cmd = "merge"}

\* The run ended with a failure on its last subprocess, in the merge step.
AbortedInMerge ==
    /\ Exited /\ exitCode = 1
    /\ step = "merge" /\ results["merge"] = "err" /\ results["push"] = "pending"
    /\ \A j \in DOMAIN log : ~IsPushStepCmd(log[j]) /\ log[j].cmd # "remote get-url"

\* C17: the merge is issued only directly after a successful checkout of the
\* target branch, with the branch current at the start of the merge step as
\* its source; a failed checkout is followed by no merge, and a failed checkout
\* or merge ends the run before any remote add, set-url or push.
C17_MergeAfterCheckout ==
    /\ \A i \in Merges :
        /\ i >= 2
        /\ log[i - 1].cmd = "checkout" /\ log[i - 1].ok
        /\ <<log[i].args[1]>> # log[i - 1].args
        /\ curBranch = log[i - 1].args
        /\ \A j \in Pulls : Tail(log[j].args) = <<log[i].args[1]>>
        /\ ~log[i].ok => i = Len(log) /\ AbortedInMerge /\ Last(out).kind = "failed to merge"
    /\ \A i \in Checkouts :
        IF log[i].ok
        THEN \/ i = Len(log) /\ pc = "merge_run"
             \/ i < Len(log) /\ log[i + 1].cmd = "merge"
        ELSE i = Len(log) /\ AbortedInMerge /\ Last(out).kind = "failed to checkout"
    /\ Cardinality(Checkouts) <= 1

\* A checkout that succeeded and a merge that failed: the run ended there.
C17_Witness ==
    /\ Merges # {}
    /\ ~Last(log).ok /\ Last(log).cmd = "merge"
    /\ Pulls # {}
    /\ Exited

IsRegistration(e) == e.cmd \in {"remote add", "remote set-url"}
RegistrationsOf(name) == {i \in DOMAIN log : IsRegistration(log[i]) /\ log[i].args[1] = name}

\* C18: for each remote processed, exactly one of remote add (name not yet
\* registered) or remote set-url (name registered) is issued before its push;
\* after it succeeds the remote's URL is the one derived from the
\* configuration, whatever it was before, and registering again would change
\* nothing; if it fails, no push is issued for that remote.
C18_RegistrationBeforePush ==
    /\ \A i \in DOMAIN log :
        LET e == log[i]
        IN  /\ e.cmd = "remote get-url" =>
                IF i = Len(log)
                THEN /\ pc = (IF e.ok THEN "push_seturl" ELSE "push_add")
                     /\ e.ok = (remoteUrl[e.args[1]] # NoUrl)
                     /\ RegistrationsOf(e.args[1]) = {}
                ELSE /\ log[i + 1].cmd = (IF e.ok THEN "remote set-url" ELSE "remote add")
                     /\ log[i + 1].args[1] = e.args[1]
            /\ IsRegistration(e) =>
                LET name == e.args[1]
                    url == Remotes(config.value)[name]
                IN  /\ i >= 2 /\ log[i - 1].cmd = "remote get-url" /\ log[i - 1].args = <<name>>
                    /\ Tail(e.args) = url
                    /\ IF e.ok
                       THEN /\ remoteUrl[name] = url
                            /\ [remoteUrl EXCEPT ![name] = url] = remoteUrl
                            /\ \/ i = Len(log) /\ pc = "push_run"
                               \/ i < Len(log) /\ log[i + 1].cmd = "push"
                                               /\ log[i + 1].args[1] = name
                       ELSE /\ i = Len(log)
                            /\ Exited /\ exitCode = 1 /\ results["push"] = "err"
                            /\ PushesTo(name) = {}
            /\ e.cmd = "push" =>
                /\ i >= 3
                /\ IsRegistration(log[i - 1]) /\ log[i - 1].ok
                /\ log[i - 1].args[1] = e.args[1]
    /\ \A name \in RemoteNames : Cardinality(RegistrationsOf(name)) <= 1

\* github was registered with another URL: set-url replaced it and the push
\* followed; gitlab was not registered and was added.
C18_Witness ==
    /\ step = "done"
    /\ \E i \in DOMAIN log : log[i].cmd = "remote set-url" /\ log[i].args[1] = "github"
    /\ \E i \in DOMAIN log : log[i].cmd = "remote add" /\ log[i].args[1] = "gitlab"
    /\ remoteUrl["github"] = Remotes(config.value)["github"]
    /\ remoteUrl["github"] # StaleUrl
    /\ PushesTo("github") # {} /\ PushesTo("gitlab") # {}

Fetches == {i \in DOMAIN log : log[i].cmd = "fetch"}
PullsFrom(name) == {i \in Pulls : log[i].args[1] = name}
ShowCurrent(ok) == Cmd("branch", <<"--show-current">>, ok)

\* fetch-all is the first subprocess of the sync step.
FetchFirstInSync ==
    /\ Cardinality(Fetches) <= 1
    /\ \A i \in Fetches : \A j \in 1..(i - 1) : log[j].cmd = "rev-parse"
    /\ results["sync"] # "pending" => Fetches # {}
    /\ \A i \in Pulls : \E j \in Fetches : j < i

\* C19, as claimed: in every run that reaches the sync step fetch-all is issued
\* first and then a pull is attempted on github and on gitlab, whatever the
\* result of fetch-all.
C19_PullsWhateverFetchDid ==
    /\ FetchFirstInSync
    /\ results["sync"] # "pending" =>
          PullsFrom("github") # {} /\ PullsFrom("gitlab") # {}

\* C19, amended: fetch-all is issued first; when it and the query of the
\* current branch succeed, a pull of that branch is attempted on github and
\* then on gitlab, the second whatever the result of the first; when one of
\* the two fails, the sync step ends with no pull at all.
C19_PullsAfterFetchSucceeded ==
    /\ FetchFirstInSync
    /\ \A i \in Fetches :
        /\ (log[i].ok /\ i < Len(log)) => log[i + 1].cmd = "branch"
        /\ (log[i].ok /\ i = Len(log)) => pc = "sync_branch"
        /\ (log[i].ok /\ i + 1 < Len(log) /\ log[i + 1].ok) =>
              /\ log[i + 2].cmd = "pull" /\ log[i + 2].args[1] = "github"
              /\ Tail(log[i + 2].args) # <<>>
        /\ (~log[i].ok \/ (i < Len(log) /\ ~log[i + 1].ok)) =>
              Pulls = {} /\ results["sync"] = "err"
    /\ \A i \in PullsFrom("github") :
        /\ i >= 3 /\ log[i - 1] = ShowCurrent(TRUE) /\ log[i - 2].cmd = "fetch"
        /\ IF i = Len(log)
           THEN pc = "sync_pull" /\ results["sync"] = "pending"
           ELSE /\ log[i + 1].cmd = "pull" /\ log[i + 1].args[1] = "gitlab"
                /\ Tail(log[i + 1].args) = Tail(log[i].args)
    /\ \A i \in PullsFrom("gitlab") : i - 1 \in PullsFrom("github")
    /\ Cardinality(Pulls) <= 2
    /\ results["sync"] = "ok" <=> PullsFrom("gitlab") # {}

\* The pull on github failed and the pull on gitlab was attempted all the same.
C19_Witness ==
    /\ results["sync"] = "ok"
    /\ \E i \in PullsFrom("github") : ~log[i].ok
    /\ \E i \in PullsFrom("gitlab") : log[i].ok

\* The positions of what Push issued for this remote: get-url, add or set-url, push.
PushStepOf(name) ==
    {i \in DOMAIN log :
        (IsPushStepCmd(log[i]) \/ log[i].cmd = "remote get-url") /\ log[i].args[1] = name}
First(S) == CHOOSE i \in S : \A j \in S : i <= j

\* Push went through `first` and started on `second`.
PushedInOrder(first, second) ==
    /\ PushStepOf(first) # {} /\ PushStepOf(second) # {}
    /\ First(PushStepOf(first)) < First(PushStepOf(second))

\* C20: the remotes are pushed one at a time: whichever remote comes second,
\* its registration and push start only after the push of the first has
\* completed successfully, and nothing more is issued for the first.
C20_OneRemoteAtATime ==
    \A a \in RemoteNames : \A b \in RemoteNames \ {a} :
        PushedInOrder(a, b) =>
            LET start == First(PushStepOf(b))
            IN  /\ \A i \in PushStepOf(a) : i < start
                /\ log[start].cmd = "remote get-url"
                /\ log[start - 1] = Cmd("push", Tail(PushArgs(a, forcePush)), TRUE)
                /\ pushed[a] = curBranch
                /\ Cardinality(PushesTo(a)) = 1

\* gitlab was pushed first, github after it (the other order is reachable too).
C20_Witness ==
    /\ PushedInOrder("gitlab", "github")
    /\ PushesTo("github") # {}
    /\ step = "done"

\* The same run in the other order.
C20_GithubFirst ==
    /\ PushedInOrder("github", "gitlab")
    /\ PushesTo("gitlab") # {}
    /\ step = "done"

\* C21: the run never checks the original branch back out: once the checkout
\* of the merge target has succeeded, whether the merge then succeeds or
\* fails, the current branch is the target, which is not the branch the run
\* started on (the one pulled and merged), and every push that succeeds after
\* it pushes the target.
C21_StaysOnTarget ==
    \A i \in DOMAIN log :
        (log[i].cmd = "checkout" /\ log[i].ok) =>
            /\ curBranch = log[i].args
            /\ \A j \in DOMAIN log :
                /\ log[j].cmd = "checkout" => j = i
                /\ log[j].cmd = "pull" => j < i /\ Tail(log[j].args) # curBranch
                /\ log[j].cmd = "merge" => j = i + 1 /\ <<log[j].args[1]>> # curBranch
                /\ (log[j].cmd = "push" /\ log[j].ok) =>
                      j > i /\ pushed[log[j].args[1]] = log[i].args
            /\ \A r \in RemoteNames : pushed[r] = None \/ pushed[r] = log[i].args

\* A run that pulled one branch, merged it into another and pushed that other
\* branch to both remotes.
C21_Witness ==
    /\ step = "done"
    /\ \E i \in DOMAIN log : log[i].cmd = "merge" /\ log[i].ok
    /\ \E i \in DOMAIN log : log[i].cmd = "pull" /\ Tail(log[i].args) # curBranch
    /\ \A r \in RemoteNames : pushed[r] = curBranch

IsLoad(e) == e.cmd = "LoadConfig"

\* The configuration is read once, in the push step, after everything the
\* sync, commit and merge steps issue and before anything is done to a remote;
\* a failed read ends the run, and what was committed and checked out stays.
ReadOnceInPushStep ==
    /\ (config.loaded /\ ~setupMode) => \E i \in DOMAIN log : IsLoad(log[i])
    /\ \A i \in DOMAIN log :
        IsLoad(log[i]) =>
            /\ i >= 2 /\ log[i - 1] = Cmd("rev-parse", <<>>, TRUE)
            /\ step = "push" \/ step = "done"
            /\ results["sync"] # "pending"
            /\ results["commit"] = "ok" /\ results["merge"] = "ok"
            /\ log[i].ok = ~Unloadable
            /\ \A j \in DOMAIN log :
                /\ IsLoad(log[j]) => j = i
                /\ (StepOf(log[j]) \in 1..3) => j < i
                /\ StepOf(log[j]) = 4 => j > i
                /\ (~log[i].ok /\ IsCommitCmd(log[j]) /\ log[j].ok) => ~dirty
                /\ (~log[i].ok /\ log[j].cmd = "checkout" /\ log[j].ok) =>
                      curBranch = log[j].args
            /\ ~log[i].ok =>
                  /\ i = Len(log)
                  /\ Exited /\ exitCode = 1 /\ results["push"] = "err"

FailedLoad == log # <<>> /\ IsLoad(Last(log)) /\ ~Last(log).ok

\* C22, as claimed: the configuration is read only inside the push step, once;
\* without a loadable configuration the "config not found" failure is raised
\* only after the sync, commit and merge steps have run, and nothing they did
\* is undone.
C22_ConfigNotFoundAfterSteps ==
    /\ ReadOnceInPushStep
    /\ FailedLoad => Last(out) = Err("config not found, run setup first")

\* C22, amended: the same, the failure being "config not found, run setup
\* first" when the file is absent and "invalid config format" when it does
\* not parse.
C22_LoadFailureAfterSteps ==
    /\ ReadOnceInPushStep
    /\ FailedLoad =>
          Last(out) = (IF cfgFile.exists THEN Err("invalid config format")
                       ELSE Err("config not found, run setup first"))

\* No config.json: the run pulled, committed and merged, and only then failed.
C22_Witness ==
    /\ FailedLoad /\ ~cfgFile.exists
    /\ Last(out) = Err("config not found, run setup first")
    /\ \E i \in DOMAIN log : log[i].cmd = "pull" /\ log[i].ok
    /\ \E i \in DOMAIN log : IsCommitCmd(log[i]) /\ log[i].ok
    /\ \E i \in DOMAIN log : log[i].cmd = "merge" /\ log[i].ok
    /\ ~dirty

\* The run is over: completed (or, with --setup, saved or cancelled) with
\* status 0, or failed with status 1.
Terminated ==
    /\ Exited
    /\ \/ exitCode = 1 /\ out # <<>>
       \/ exitCode = 0 /\ setupMode
       \/ exitCode = 0 /\ step = "done" /\ out # <<>> /\ Last(out) = Completed

\* How often a subprocess with this name, and this first argument if one is
\* given, was issued.
Issued(cmd, first) ==
    Cardinality({i \in DOMAIN log :
        log[i].cmd = cmd /\ (first # "" => log[i].args[1] = first)})

\* Nothing is retried or looped.
AtMostOnce ==
    /\ Issued("fetch", "") <= 1
    /\ Issued("commit", "") <= 1
    /\ Issued("checkout", "") <= 1
    /\ Issued("merge", "") <= 1
    /\ \A r \in RemoteNames : Issued("pull", r) <= 1 /\ Issued("push", r) <= 1

\* C23: when every subprocess call and every prompt returns, every run
\* terminates, completed or failed, and on the way issues at most one
\* fetch-all, one pull per remote name, one commit, one checkout, one merge
\* and one push per remote.
C23_TerminatesWithoutRetry == <>Terminated /\ []AtMostOnce

\* A completed run that issued each of them exactly once.
C23_Witness ==
    /\ Terminated /\ exitCode = 0 /\ step = "done"
    /\ Issued("fetch", "") = 1
    /\ Issued("commit", "") = 1
    /\ Issued("checkout", "") = 1
    /\ Issued("merge", "") = 1
    /\ \A r \in RemoteNames : Issued("pull", r) = 1 /\ Issued("push", r) = 1
====
